---- MODULE Spec2Model ----
(***************************************************************************)
(* The `str similarity` plugin of nu_plugin_str_similarity (src/main.rs):  *)
(* the request handler StrSimilarity::run, the three engine operations it  *)
(* routes to (list_algorithms, compute_all, compare_strings), the          *)
(* dispatcher compute and the integer/float coercion of results.           *)
(*                                                                         *)
(* Strings are sequences of one-character strings, so that lower-casing,   *)
(* matching and the edit distance are computed and not assumed.            *)
(*                                                                         *)
(* The metrics themselves live in the textdistance crate, outside          *)
(* src/.  A call into it is kept as the record of the function called and  *)
(* its operands in the order they were passed; levenshtein is given its    *)
(* value by the dynamic-programming edit distance, every other metric is   *)
(* left uninterpreted (see textdistance below).                            *)
(***************************************************************************)
EXTENDS Integers, Sequences, FiniteSets, TLC

VARIABLES
    pc,        \* "idle" | "called" | "done": where the serve loop stands
    self,      \* the StrSimilarity plugin value handed to run as &mut self
    request,   \* the call in flight: [call: EvaluatedCall, input: Value]
    outcome,   \* what run returned: Ok(Value) or Err(LabeledError)
    ops,       \* ghost: the engine operations run called, in order
    calls,     \* ghost: the textdistance calls made, in order, with results
    memo       \* history: one earlier (request, outcome) pair, or none

vars == <<pc, self, request, outcome, ops, calls, memo>>

(***************************************************************************)
(* Bounds of the model.                                                    *)
(***************************************************************************)
\* Longest generic operand string drawn over Alphabet.
MaxLen == 1

Alphabet == {"a", "b"}

(***************************************************************************)
(* The string literals of main.rs, as character sequences.                 *)
(***************************************************************************)
lit_bag ==
    <<"b", "a", "g">>
lit_cosine ==
    <<"c", "o", "s", "i", "n", "e">>
lit_cos ==
    <<"c", "o", "s">>
lit_damerau_levenshtein ==
    <<"d", "a", "m", "e", "r", "a", "u", "_", "l", "e", "v", "e", "n", "s", "h", "t", "e", "i", "n">>
lit_dlev ==
    <<"d", "l", "e", "v">>
lit_entropy_ncd ==
    <<"e", "n", "t", "r", "o", "p", "y", "_", "n", "c", "d">>
lit_entncd ==
    <<"e", "n", "t", "n", "c", "d">>
lit_hamming ==
    <<"h", "a", "m", "m", "i", "n", "g">>
lit_ham ==
    <<"h", "a", "m">>
lit_jaccard ==
    <<"j", "a", "c", "c", "a", "r", "d">>
lit_jac ==
    <<"j", "a", "c">>
lit_jaro ==
    <<"j", "a", "r", "o">>
lit_jar ==
    <<"j", "a", "r">>
lit_jaro_winkler ==
    <<"j", "a", "r", "o", "_", "w", "i", "n", "k", "l", "e", "r">>
lit_jarw ==
    <<"j", "a", "r", "w">>
lit_levenshtein ==
    <<"l", "e", "v", "e", "n", "s", "h", "t", "e", "i", "n">>
lit_lev ==
    <<"l", "e", "v">>
lit_longest_common_subsequence ==
    <<"l", "o", "n", "g", "e", "s", "t", "_", "c", "o", "m", "m", "o", "n", "_", "s", "u", "b", "s", "e", "q", "u", "e", "n", "c", "e">>
lit_lcsubseq ==
    <<"l", "c", "s", "u", "b", "s", "e", "q">>
lit_longest_common_substring ==
    <<"l", "o", "n", "g", "e", "s", "t", "_", "c", "o", "m", "m", "o", "n", "_", "s", "u", "b", "s", "t", "r", "i", "n", "g">>
lit_lcsubstr ==
    <<"l", "c", "s", "u", "b", "s", "t", "r">>
lit_length ==
    <<"l", "e", "n", "g", "t", "h">>
lit_len ==
    <<"l", "e", "n">>
lit_lig3 ==
    <<"l", "i", "g", "3">>
lit_lig ==
    <<"l", "i", "g">>
lit_mlipns ==
    <<"m", "l", "i", "p", "n", "s">>
lit_mli ==
    <<"m", "l", "i">>
lit_overlap ==
    <<"o", "v", "e", "r", "l", "a", "p">>
lit_olap ==
    <<"o", "l", "a", "p">>
lit_prefix ==
    <<"p", "r", "e", "f", "i", "x">>
lit_pre ==
    <<"p", "r", "e">>
lit_ratcliff_obershelp ==
    <<"r", "a", "t", "c", "l", "i", "f", "f", "_", "o", "b", "e", "r", "s", "h", "e", "l", "p">>
lit_rat ==
    <<"r", "a", "t">>
lit_roberts ==
    <<"r", "o", "b", "e", "r", "t", "s">>
lit_rob ==
    <<"r", "o", "b">>
lit_sift4_common ==
    <<"s", "i", "f", "t", "4", "_", "c", "o", "m", "m", "o", "n">>
lit_scom ==
    <<"s", "c", "o", "m">>
lit_sift4_simple ==
    <<"s", "i", "f", "t", "4", "_", "s", "i", "m", "p", "l", "e">>
lit_ssim ==
    <<"s", "s", "i", "m">>
lit_smith_waterman ==
    <<"s", "m", "i", "t", "h", "_", "w", "a", "t", "e", "r", "m", "a", "n">>
lit_smithw ==
    <<"s", "m", "i", "t", "h", "w">>
lit_sorensen_dice ==
    <<"s", "o", "r", "e", "n", "s", "e", "n", "_", "d", "i", "c", "e">>
lit_soredice ==
    <<"s", "o", "r", "e", "d", "i", "c", "e">>
lit_suffix ==
    <<"s", "u", "f", "f", "i", "x">>
lit_suf ==
    <<"s", "u", "f">>
lit_tversky ==
    <<"t", "v", "e", "r", "s", "k", "y">>
lit_tv ==
    <<"t", "v">>
lit_yujian_bo ==
    <<"y", "u", "j", "i", "a", "n", "_", "b", "o">>
lit_ybo ==
    <<"y", "b", "o">>
\* 'nutshell' | str similarity 'nushell'  (the plugin's examples)
lit_nutshell ==
    <<"n", "u", "t", "s", "h", "e", "l", "l">>
lit_nushell ==
    <<"n", "u", "s", "h", "e", "l", "l">>
lit_nu ==
    <<"n", "u">>

\* an identifier that names no algorithm
lit_unknown_algo_xyz ==
    <<"u", "n", "k", "n", "o", "w", "n", "_", "a", "l", "g", "o", "_", "x", "y", "z">>

(***************************************************************************)
(* The catalogue as the source writes it, three times over.                *)
(***************************************************************************)
\* algos in alphabetical order instead of the order the source writes
algos_sorted ==
    << lit_bag, lit_cosine, lit_damerau_levenshtein, lit_entropy_ncd,
       lit_hamming, lit_jaccard, lit_jaro, lit_jaro_winkler,
       lit_length, lit_levenshtein, lit_lig3, lit_longest_common_subsequence,
       lit_longest_common_substring, lit_mlipns, lit_overlap, lit_prefix,
       lit_ratcliff_obershelp, lit_roberts, lit_sift4_common, lit_sift4_simple,
       lit_smith_waterman, lit_sorensen_dice, lit_suffix, lit_tversky,
       lit_yujian_bo >>

\* let algos = vec![...]  (compute_all)
algos ==
    << lit_bag, lit_cosine, lit_damerau_levenshtein, lit_entropy_ncd,
       lit_hamming, lit_jaccard, lit_jaro, lit_jaro_winkler,
       lit_levenshtein, lit_longest_common_subsequence, lit_longest_common_substring, lit_length,
       lit_lig3, lit_mlipns, lit_overlap, lit_prefix,
       lit_ratcliff_obershelp, lit_roberts, lit_sift4_common, lit_sift4_simple,
       lit_smith_waterman, lit_sorensen_dice, lit_suffix, lit_tversky,
       lit_yujian_bo >>

\* the arms with the alias of overlap left out of its pattern
ArmPatterns_missing ==
    << {lit_bag}, {lit_cos, lit_cosine}, {lit_dlev, lit_damerau_levenshtein},
       {lit_entncd, lit_entropy_ncd}, {lit_ham, lit_hamming}, {lit_jac, lit_jaccard},
       {lit_jar, lit_jaro}, {lit_jarw, lit_jaro_winkler}, {lit_lev, lit_levenshtein},
       {lit_lcsubseq, lit_longest_common_subsequence}, {lit_lcsubstr, lit_longest_common_substring}, {lit_len, lit_length},
       {lit_lig, lit_lig3}, {lit_mli, lit_mlipns}, {lit_overlap},
       {lit_pre, lit_prefix}, {lit_rat, lit_ratcliff_obershelp}, {lit_rob, lit_roberts},
       {lit_scom, lit_sift4_common}, {lit_ssim, lit_sift4_simple}, {lit_smithw, lit_smith_waterman},
       {lit_soredice, lit_sorensen_dice}, {lit_suf, lit_suffix}, {lit_tv, lit_tversky},
       {lit_ybo, lit_yujian_bo} >>

\* the string patterns of the arms of compute's match, in order
ArmPatterns ==
    << {lit_bag}, {lit_cos, lit_cosine}, {lit_dlev, lit_damerau_levenshtein},
       {lit_entncd, lit_entropy_ncd}, {lit_ham, lit_hamming}, {lit_jac, lit_jaccard},
       {lit_jar, lit_jaro}, {lit_jarw, lit_jaro_winkler}, {lit_lev, lit_levenshtein},
       {lit_lcsubseq, lit_longest_common_subsequence}, {lit_lcsubstr, lit_longest_common_substring}, {lit_len, lit_length},
       {lit_lig, lit_lig3}, {lit_mli, lit_mlipns}, {lit_olap, lit_overlap},
       {lit_pre, lit_prefix}, {lit_rat, lit_ratcliff_obershelp}, {lit_rob, lit_roberts},
       {lit_scom, lit_sift4_common}, {lit_ssim, lit_sift4_simple}, {lit_smithw, lit_smith_waterman},
       {lit_soredice, lit_sorensen_dice}, {lit_suf, lit_suffix}, {lit_tv, lit_tversky},
       {lit_ybo, lit_yujian_bo} >>

\* the textdistance function each arm calls; the last is the `_` arm
ArmFn ==
    << "bag", "cosine", "damerau_levenshtein", "entropy_ncd", "hamming",
       "jaccard", "jaro", "jaro_winkler", "levenshtein", "lcsseq",
       "lcsstr", "length", "lig3", "mlipns", "overlap",
       "prefix", "ratcliff_obershelp", "roberts", "sift4_common", "sift4_simple",
       "smith_waterman", "sorensen_dice", "suffix", "tversky", "yujian_bo",
       "levenshtein" >>

\* the rows with the jaro_winkler row copied from jaro and its alias kept
list_algorithms_rows_copied ==
    << <<lit_bag, lit_bag>>, <<lit_cosine, lit_cos>>,
       <<lit_damerau_levenshtein, lit_dlev>>, <<lit_entropy_ncd, lit_entncd>>,
       <<lit_hamming, lit_ham>>, <<lit_jaccard, lit_jac>>,
       <<lit_jaro, lit_jar>>, <<lit_jaro_winkler, lit_jar>>,
       <<lit_levenshtein, lit_lev>>, <<lit_longest_common_subsequence, lit_lcsubseq>>,
       <<lit_longest_common_substring, lit_lcsubstr>>, <<lit_length, lit_len>>,
       <<lit_lig3, lit_lig>>, <<lit_mlipns, lit_mli>>,
       <<lit_overlap, lit_olap>>, <<lit_prefix, lit_pre>>,
       <<lit_ratcliff_obershelp, lit_rat>>, <<lit_roberts, lit_rob>>,
       <<lit_sift4_common, lit_scom>>, <<lit_sift4_simple, lit_ssim>>,
       <<lit_smith_waterman, lit_smithw>>, <<lit_sorensen_dice, lit_soredice>>,
       <<lit_suffix, lit_suf>>, <<lit_tversky, lit_tv>>,
       <<lit_yujian_bo, lit_ybo>> >>

\* the (algorithm, alias) records list_algorithms pushes, in order
list_algorithms_rows ==
    << <<lit_bag, lit_bag>>, <<lit_cosine, lit_cos>>,
       <<lit_damerau_levenshtein, lit_dlev>>, <<lit_entropy_ncd, lit_entncd>>,
       <<lit_hamming, lit_ham>>, <<lit_jaccard, lit_jac>>,
       <<lit_jaro, lit_jar>>, <<lit_jaro_winkler, lit_jarw>>,
       <<lit_levenshtein, lit_lev>>, <<lit_longest_common_subsequence, lit_lcsubseq>>,
       <<lit_longest_common_substring, lit_lcsubstr>>, <<lit_length, lit_len>>,
       <<lit_lig3, lit_lig>>, <<lit_mlipns, lit_mli>>,
       <<lit_overlap, lit_olap>>, <<lit_prefix, lit_pre>>,
       <<lit_ratcliff_obershelp, lit_rat>>, <<lit_roberts, lit_rob>>,
       <<lit_sift4_common, lit_scom>>, <<lit_sift4_simple, lit_ssim>>,
       <<lit_smith_waterman, lit_smithw>>, <<lit_sorensen_dice, lit_soredice>>,
       <<lit_suffix, lit_suf>>, <<lit_tversky, lit_tv>>,
       <<lit_yujian_bo, lit_ybo>> >>

(***************************************************************************)
(* String helpers: str::to_lowercase over the ASCII letters.               *)
(***************************************************************************)
UpperChars ==
    << "A", "B", "C", "D", "E", "F", "G", "H", "I", "J", "K", "L", "M",
       "N", "O", "P", "Q", "R", "S", "T", "U", "V", "W", "X", "Y", "Z" >>

LowerChars ==
    << "a", "b", "c", "d", "e", "f", "g", "h", "i", "j", "k", "l", "m",
       "n", "o", "p", "q", "r", "s", "t", "u", "v", "w", "x", "y", "z" >>

char_to_lowercase(c) ==
    IF \E i \in DOMAIN UpperChars : UpperChars[i] = c
    THEN LowerChars[CHOOSE i \in DOMAIN UpperChars : UpperChars[i] = c]
    ELSE c

\* a.to_lowercase()
to_lowercase(a) ==
    [i \in 1..Len(a) |-> char_to_lowercase(a[i])]

(***************************************************************************)
(* Option<T>, Result<Value, LabeledError> and the nu Value variants used.  *)
(***************************************************************************)
None == [some |-> FALSE, item |-> <<>>]

Some(x) == [some |-> TRUE, item |-> x]

Ok(v) == [ok |-> TRUE, value |-> v]

Err(label) == [ok |-> FALSE, value |-> [type |-> "error", label |-> label]]

ValueString(s) == [type |-> "string", val |-> s]

ValueNothing == [type |-> "nothing", val |-> <<>>]

ValueInt(i) == [type |-> "int", val |-> i]

ValueFloat(f) == [type |-> "float", val |-> f]

ValueList(vs) == [type |-> "list", vals |-> vs]

(***************************************************************************)
(* f64 results.  A value is whole + num/den (0 <= num < den, lowest terms) *)
(* when it is known exactly; the result of an uninterpreted metric that is *)
(* not a whole number carries in `of` the call that produced it, so two    *)
(* such values are equal only when they come from the same function on the *)
(* same operands in the same order.                                        *)
(***************************************************************************)
F64(whole, num, den, of) ==
    [whole |-> whole, num |-> num, den |-> den, of |-> of]

\* f64::fract(): the value less its integer part
fract(v) == [v EXCEPT !.whole = 0]

\* 0.0
Zero == F64(0, 0, 1, <<>>)

\* v as i64, for the non-negative values the metrics return
as_i64(v) == v.whole

\* n as f64, for n: usize
as_f64(n) == F64(n, 0, 1, <<>>)

RECURSIVE GCD(_, _)
GCD(a, b) == IF b = 0 THEN a ELSE GCD(b, a % b)

\* n / d as f64, for 0 <= n <= d, d > 0
Ratio(n, d) ==
    LET g == GCD(n, d)
    IN  F64(n \div d, (n % d) \div g, d \div g, <<>>)

(***************************************************************************)
(* The textdistance crate.  levenshtein: the Wagner-Fischer dynamic        *)
(* programme over characters; str:: returns the distance, nstr:: the       *)
(* distance over the longer length (0 when both strings are empty).        *)
(* Every other metric is uninterpreted: a deterministic value of           *)
(* (function, normalize, first operand, second operand), whole on          *)
(* identical operands and otherwise a fraction known only by its call.     *)
(***************************************************************************)
Min(a, b) == IF a < b THEN a ELSE b

Max(a, b) == IF a < b THEN b ELSE a

RECURSIVE LevRow(_, _, _, _, _)
\* the row of character c, built left to right from the row above it
LevRow(prev, c, t, j, row) ==
    IF j > Len(t) THEN row
    ELSE LevRow(prev, c, t, j + 1,
                Append(row, Min(Min(prev[j + 1] + 1, row[j] + 1),
                                prev[j] + (IF c = t[j] THEN 0 ELSE 1))))

RECURSIVE LevRows(_, _, _, _)
LevRows(s, t, i, prev) ==
    IF i > Len(s) THEN prev[Len(t) + 1]
    ELSE LevRows(s, t, i + 1, LevRow(prev, s[i], t, 1, <<prev[1] + 1>>))

\* textdistance::str::levenshtein
levenshtein(s1, s2) ==
    LevRows(s1, s2, 1, [j \in 1..(Len(s2) + 1) |-> j - 1])

\* textdistance::nstr::levenshtein
nlevenshtein(s1, s2) ==
    LET m == Max(Len(s1), Len(s2))
    IN  IF m = 0 THEN Zero ELSE Ratio(levenshtein(s1, s2), m)

uninterpreted(fn, norm, s1, s2) ==
    IF s1 = s2 THEN Zero ELSE F64(0, 0, 1, <<fn, norm, s1, s2>>)

\* if norm { nstr::fn(s1, s2) } else { str::fn(s1, s2) as f64 }
textdistance(fn, norm, s1, s2) ==
    IF fn = "levenshtein"
    THEN IF norm THEN nlevenshtein(s1, s2) ELSE as_f64(levenshtein(s1, s2))
    ELSE uninterpreted(fn, norm, s1, s2)

(***************************************************************************)
(* compute: the dispatcher (main.rs 177-208).                              *)
(***************************************************************************)

\* a match that also takes an identifier that starts one of the patterns
match_arm_prefix(sim) ==
    LET starts(k) == \E p \in ArmPatterns[k] :
                        /\ Len(sim) > 0
                        /\ Len(sim) <= Len(p)
                        /\ SubSeq(p, 1, Len(sim)) = sim
    IN  IF \E k \in DOMAIN ArmPatterns : starts(k)
        THEN CHOOSE k \in DOMAIN ArmPatterns :
                 starts(k) /\ \A j \in 1..(k - 1) : ~starts(j)
        ELSE Len(ArmPatterns) + 1

\* The match of compute: the first arm one of whose patterns equals sim; the
\* `_` arm, numbered 26, when none does.
match_arm(sim) ==
    IF \E k \in DOMAIN ArmPatterns : sim \in ArmPatterns[k]
    THEN CHOOSE k \in DOMAIN ArmPatterns :
             /\ sim \in ArmPatterns[k]
             /\ \A j \in 1..(k - 1) : sim \notin ArmPatterns[j]
    ELSE Len(ArmPatterns) + 1

\* fn compute(a, s1, s2, norm) -> f64, with the call it makes
compute(a, s1, s2, norm) ==
    LET sim == to_lowercase(a)
        k   == match_arm(sim)
        ret == textdistance(ArmFn[k], norm, s1, s2)
    IN  [val  |-> ret,
         call |-> [arm |-> k, fn |-> ArmFn[k], norm |-> norm,
                   left |-> s1, right |-> s2, ret |-> ret]]

(***************************************************************************)
(* compute_all: the aggregator (main.rs 127-175).                          *)
(***************************************************************************)
\* the row value always cast to an integer
row_value_trunc(val_comp) ==
    ValueInt(as_i64(val_comp))

\* if val_comp.fract() == 0.0 { Value::int(val_comp as i64) }
\* else { Value::float(val_comp) }
row_value(val_comp) ==
    IF fract(val_comp) = Zero
    THEN ValueInt(as_i64(val_comp))
    ELSE ValueFloat(val_comp)

compute_all(s1, s2, norm) ==
    LET done == [i \in 1..Len(algos) |-> compute(algos[i], s1, s2, norm)]
        rows == [i \in 1..Len(algos) |->
                    [algorithm |-> ValueString(algos[i]),
                     distance  |-> row_value(done[i].val)]]
    IN  [result |-> Ok(ValueList(rows)),
         calls  |-> [i \in 1..Len(algos) |-> done[i].call]]

(***************************************************************************)
(* list_algorithms (main.rs 210-246).                                      *)
(***************************************************************************)
list_algorithms ==
    ValueList([i \in 1..Len(list_algorithms_rows) |->
                  [algorithm |-> ValueString(list_algorithms_rows[i][1]),
                   alias     |-> ValueString(list_algorithms_rows[i][2])]])

\* compare_strings without the integer case
compare_strings_float(sim_algo, compare_to_str, normalize, input_val) ==
    LET c == compute(sim_algo, input_val, compare_to_str, normalize)
    IN  [result |-> Ok(ValueFloat(c.val)), calls |-> <<c.call>>]

(***************************************************************************)
(* compare_strings (main.rs 248-271).                                      *)
(***************************************************************************)
compare_strings(sim_algo, compare_to_str, normalize, input_val) ==
    LET compare_from == input_val
        compare_to   == compare_to_str
        c            == compute(sim_algo, compare_from, compare_to, normalize)
        a_val        == c.val
    IN  [result |-> IF fract(a_val) = Zero
                    THEN Ok(ValueInt(as_i64(a_val)))
                    ELSE Ok(ValueFloat(a_val)),
         calls  |-> <<c.call>>]

(***************************************************************************)
(* StrSimilarity and its run (main.rs 9-15, 72-125).                       *)
(***************************************************************************)
\* struct StrSimilarity; -- no fields
StrSimilarity == <<>>

Returned(result, engine, made) ==
    [result |-> result, ops |-> engine, calls |-> made]

\* run with the list flag consulted only once the pipeline input is known
\* to be a string
route_list_late(call, input) ==
    IF ~call.positional.some
    THEN Returned(Err("Expected a string as a parameter"), <<>>, <<>>)
    ELSE
      LET compare_to_str == call.positional.item
          sim == IF call.algorithm.some THEN call.algorithm.item
                 ELSE lit_levenshtein
      IN
      IF input.type = "string"
      THEN IF call.list
           THEN Returned(Ok(list_algorithms), <<"list_algorithms">>, <<>>)
           ELSE IF call.all
           THEN LET r == compute_all(compare_to_str, input.val, call.normalize)
                IN  Returned(r.result, <<"compute_all">>, r.calls)
           ELSE LET r == compare_strings(sim, compare_to_str, call.normalize,
                                         input.val)
                IN  Returned(r.result, <<"compare_strings">>, r.calls)
      ELSE Returned(Err("Expected something from pipeline"), <<>>, <<>>)

\* run with a supplied algorithm flag taking precedence over the all flag
route_all_late(call, input) ==
    IF ~call.positional.some
    THEN Returned(Err("Expected a string as a parameter"), <<>>, <<>>)
    ELSE
      LET compare_to_str == call.positional.item
      IN
      IF call.list
      THEN Returned(Ok(list_algorithms), <<"list_algorithms">>, <<>>)
      ELSE
        IF input.type = "string"
        THEN IF call.all /\ ~call.algorithm.some
             THEN LET r == compute_all(compare_to_str, input.val,
                                       call.normalize)
                  IN  Returned(r.result, <<"compute_all">>, r.calls)
             ELSE LET sim == IF call.algorithm.some THEN call.algorithm.item
                             ELSE lit_levenshtein
                      r == compare_strings(sim, compare_to_str,
                                           call.normalize, input.val)
                  IN  Returned(r.result, <<"compare_strings">>, r.calls)
        ELSE Returned(Err("Expected something from pipeline"), <<>>, <<>>)

\* The body of run (main.rs 80-123): what it returns for a call and a
\* pipeline input, with the engine operation it called.
route(call, input) ==
    IF ~call.positional.some
    THEN Returned(Err("Expected a string as a parameter"), <<>>, <<>>)
    ELSE
      LET compare_to_str == call.positional.item
          normalize      == call.normalize
          list           == call.list
      IN
      IF list
      THEN Returned(Ok(list_algorithms), <<"list_algorithms">>, <<>>)
      ELSE
        LET sim == IF call.algorithm.some THEN call.algorithm.item
                   ELSE lit_levenshtein
            all == call.all
        IN
        IF input.type = "string"
        THEN IF all
             THEN LET r == compute_all(compare_to_str, input.val, normalize)
                  IN  Returned(r.result, <<"compute_all">>, r.calls)
             ELSE LET r == compare_strings(sim, compare_to_str, normalize,
                                           input.val)
                  IN  Returned(r.result, <<"compare_strings">>, r.calls)
        ELSE Returned(Err("Expected something from pipeline"), <<>>, <<>>)

\* run keeping the normalize switch of an earlier call in the plugin value
run_sticky(this, call, input) ==
    LET normalize == call.normalize \/ this # StrSimilarity
    IN  [self     |-> IF normalize THEN <<"normalize">> ELSE this,
         returned |-> route([call EXCEPT !.normalize = normalize], input)]

\* fn run(&mut self, name, call, input): self is passed and never written
run(this, call, input) ==
    [self |-> this, returned |-> route(call, input)]

(***************************************************************************)
(* The requests the host can send.                                         *)
(***************************************************************************)
Strings ==
    UNION {[1..n -> Alphabet] : n \in 0..MaxLen}
        \cup {lit_nutshell, lit_nushell, lit_nu}

PipelineInputs == {ValueNothing} \cup {ValueString(s) : s \in Strings}

Positionals == {None} \cup {Some(s) : s \in Strings}

char_to_uppercase(c) ==
    IF \E i \in DOMAIN LowerChars : LowerChars[i] = c
    THEN UpperChars[CHOOSE i \in DOMAIN LowerChars : LowerChars[i] = c]
    ELSE c

to_uppercase(a) == [i \in 1..Len(a) |-> char_to_uppercase(a[i])]

Capitalized(a) ==
    [i \in 1..Len(a) |-> IF i = 1 THEN char_to_uppercase(a[i]) ELSE a[i]]

\* every name and alias the source mentions
CatalogWords ==
    {list_algorithms_rows[i][j] : i \in DOMAIN list_algorithms_rows, j \in 1..2}
        \cup UNION {ArmPatterns[k] : k \in DOMAIN ArmPatterns}
        \cup {algos[i] : i \in DOMAIN algos}

\* each word in lower case, in upper case and capitalised
KnownIdentifiers ==
    UNION {{w, to_uppercase(w), Capitalized(w)} : w \in CatalogWords}

\* strict prefixes and one-character extensions of the words, and the
\* identifier of the fallback scenario, less those that are words themselves
UnknownIdentifiers ==
    { x \in {SubSeq(w, 1, Len(w) - 1) : w \in CatalogWords}
              \cup {Append(w, "x") : w \in CatalogWords}
              \cup {to_uppercase(SubSeq(w, 1, Len(w) - 1)) : w \in CatalogWords}
              \cup {lit_unknown_algo_xyz, <<>>} :
        to_lowercase(x) \notin CatalogWords }

Algorithms ==
    {None} \cup {Some(a) : a \in KnownIdentifiers \cup UnknownIdentifiers}

\* the identifiers tried where the algorithm flag is not consulted
FewAlgorithms ==
    {None, Some(lit_lev), Some(to_uppercase(lit_prefix)),
     Some(lit_unknown_algo_xyz)}

EvaluatedCall(positional, normalize, list, all, algorithm) ==
    [positional |-> positional, normalize |-> normalize, list |-> list,
     all |-> all, algorithm |-> algorithm]

NoRequest ==
    [call  |-> EvaluatedCall(None, FALSE, FALSE, FALSE, None),
     input |-> ValueNothing]

NoOutcome == Ok(ValueNothing)

NoMemo == [set |-> FALSE, request |-> NoRequest, outcome |-> NoOutcome]

(***************************************************************************)
(* The serve loop (main.rs 273-275): a call arrives, run handles it, the   *)
(* response is sent and the plugin waits for the next call.                *)
(***************************************************************************)
Init ==
    /\ pc = "idle"
    /\ self = StrSimilarity
    /\ request = NoRequest
    /\ outcome = NoOutcome
    /\ ops = <<>>
    /\ calls = <<>>
    /\ memo = NoMemo

Call ==
    /\ pc = "idle"
    /\ \E input \in PipelineInputs, positional \in Positionals,
          normalize \in BOOLEAN, list \in BOOLEAN, all \in BOOLEAN :
          \E algorithm \in (IF list \/ all THEN FewAlgorithms ELSE Algorithms) :
             request' = [call  |-> EvaluatedCall(positional, normalize, list,
                                                 all, algorithm),
                         input |-> input]
    /\ pc' = "called"
    /\ UNCHANGED <<self, outcome, ops, calls, memo>>

Run ==
    /\ pc = "called"
    /\ LET r == run(self, request.call, request.input)
       IN  /\ self' = r.self
           /\ outcome' = r.returned.result
           /\ ops' = r.returned.ops
           /\ calls' = r.returned.calls
    /\ pc' = "done"
    /\ UNCHANGED <<request, memo>>

Respond ==
    /\ pc = "done"
    /\ pc' = "idle"
    /\ request' = NoRequest
    /\ outcome' = NoOutcome
    /\ ops' = <<>>
    /\ calls' = <<>>
    /\ UNCHANGED <<self, memo>>

Next == Call \/ Run \/ Respond

Spec == Init /\ [][Next]_vars

(***************************************************************************)
(* The same loop over fewer requests, with one earlier request and its     *)
(* outcome remembered, to compare an invocation with an earlier one.       *)
(***************************************************************************)
HistStrings == {<<"a">>, <<"a", "b">>}

CallH ==
    /\ pc = "idle"
    /\ \E input \in {ValueNothing} \cup {ValueString(s) : s \in HistStrings},
          positional \in {None, Some(<<"a">>)},
          normalize \in BOOLEAN, list \in BOOLEAN, all \in BOOLEAN,
          algorithm \in {None, Some(to_uppercase(lit_prefix)),
                         Some(lit_unknown_algo_xyz)} :
             request' = [call  |-> EvaluatedCall(positional, normalize, list,
                                                 all, algorithm),
                         input |-> input]
    /\ pc' = "called"
    /\ UNCHANGED <<self, outcome, ops, calls, memo>>

Remember ==
    /\ pc = "done"
    /\ memo' = [set |-> TRUE, request |-> request, outcome |-> outcome]
    /\ UNCHANGED <<pc, self, request, outcome, ops, calls>>

NextH == CallH \/ Run \/ Respond \/ Remember

SpecHist == Init /\ [][NextH]_vars

(***************************************************************************)
(* The properties checked.                                                 *)
(***************************************************************************)
Done == pc = "done"

Positional == request.call.positional

StringInput == request.input.type = "string"

\* the identifier run hands to compare_strings
Selected ==
    IF request.call.algorithm.some THEN request.call.algorithm.item
    ELSE lit_levenshtein

Distinct(seq) ==
    \A i, j \in DOMAIN seq : i # j => seq[i] # seq[j]

\* the catalogue of the specification, in its fixed order
CatalogOrder ==
    << lit_bag, lit_cosine, lit_damerau_levenshtein, lit_entropy_ncd,
       lit_hamming, lit_jaccard, lit_jaro, lit_jaro_winkler, lit_levenshtein,
       lit_longest_common_subsequence, lit_longest_common_substring,
       lit_length, lit_lig3, lit_mlipns, lit_overlap, lit_prefix,
       lit_ratcliff_obershelp, lit_roberts, lit_sift4_common,
       lit_sift4_simple, lit_smith_waterman, lit_sorensen_dice, lit_suffix,
       lit_tversky, lit_yujian_bo >>

\* C1: whenever compute_all has been called, whatever the two strings and the
\* normalize flag, the invocation succeeded with a list of exactly 25 rows
\* whose algorithm names are, in order, the fixed catalogue sequence.
C1_AllReportIsTheCatalog ==
    (Done /\ ops = <<"compute_all">>) =>
        /\ outcome.ok
        /\ outcome.value.type = "list"
        /\ Len(outcome.value.vals) = 25
        /\ \A i \in 1..25 :
              outcome.value.vals[i].algorithm = ValueString(CatalogOrder[i])

C1_Witness ==
    /\ Done
    /\ ops = <<"compute_all">>
    /\ request.input = ValueString(lit_nutshell)
    /\ Positional = Some(<<>>)
    /\ request.call.normalize
    /\ Len(outcome.value.vals) = 25

\* C2: list_algorithms returns exactly 25 (name, alias) rows, in the order
\* compute_all uses for its rows, with the names pairwise distinct and the
\* aliases pairwise distinct.
C2_ListIsTheCatalog ==
    (Done /\ ops = <<"list_algorithms">>) =>
        /\ outcome.ok
        /\ outcome.value.type = "list"
        /\ Len(outcome.value.vals) = 25
        /\ Len(algos) = 25
        /\ \A i \in 1..25 :
              outcome.value.vals[i].algorithm = ValueString(algos[i])
        /\ Distinct([i \in 1..25 |-> outcome.value.vals[i].algorithm])
        /\ Distinct([i \in 1..25 |-> outcome.value.vals[i].alias])

C2_Witness ==
    /\ Done
    /\ ops = <<"list_algorithms">>
    /\ outcome.ok
    /\ Len(outcome.value.vals) = 25
    /\ outcome.value.vals[25].alias = ValueString(lit_ybo)

\* C3: in every computation the pipeline input is the first operand handed to
\* the metric and the command argument the second, on the single-algorithm
\* path and on the all-algorithms path; so each row of the compute_all report
\* equals the single-algorithm result for that row's algorithm on the same
\* request.
C3_PipelineInputIsFirstOperand ==
    Done =>
        /\ \A i \in DOMAIN calls :
              /\ calls[i].left = request.input.val
              /\ calls[i].right = Positional.item
        /\ ops = <<"compute_all">> =>
              \A i \in DOMAIN algos :
                 Ok(outcome.value.vals[i].distance)
                    = compare_strings(algos[i], Positional.item,
                                      request.call.normalize,
                                      request.input.val).result

\* the names and aliases list_algorithms reports
ListedPairs ==
    [k \in DOMAIN list_algorithms.vals |->
        <<list_algorithms.vals[k].algorithm.val,
          list_algorithms.vals[k].alias.val>>]

ListedWords ==
    {ListedPairs[k][j] : k \in DOMAIN ListedPairs, j \in 1..2}

SingleDone == Done /\ ops = <<"compare_strings">>

\* C4: an identifier that is, in any letter case, the canonical name or the
\* alias of the k-th pair list_algorithms reports selects the k-th arm of
\* compute, never the fallback arm nor the arm or the metric of another
\* entry, and the result is the one the canonical name gives.
C4_NameAndAliasSelectTheSameMetric ==
    SingleDone =>
        \A k \in DOMAIN ListedPairs :
           to_lowercase(Selected) \in {ListedPairs[k][1], ListedPairs[k][2]} =>
              /\ Len(calls) = 1
              /\ calls[1].arm = k
              /\ \A j \in DOMAIN ListedPairs : j # k => ArmFn[j] # calls[1].fn
              /\ outcome = compare_strings(ListedPairs[k][1], Positional.item,
                                           request.call.normalize,
                                           request.input.val).result

C4_Witness ==
    /\ SingleDone
    /\ request.call.algorithm = Some(to_uppercase(lit_olap))
    /\ request.input = ValueString(lit_nu)
    /\ Positional = Some(<<"b">>)
    /\ calls[1].fn = "overlap"

\* C5: an identifier that, lower-cased, is no name and no alias of the
\* catalogue does not fail and gives exactly the levenshtein result for the
\* same strings and normalize flag.
C5_UnknownFallsBackToLevenshtein ==
    (SingleDone /\ to_lowercase(Selected) \notin ListedWords) =>
        /\ outcome.ok
        /\ Len(calls) = 1
        /\ calls[1].fn = "levenshtein"
        /\ outcome = compare_strings(lit_levenshtein, Positional.item,
                                     request.call.normalize,
                                     request.input.val).result

C5_Witness ==
    /\ SingleDone
    /\ request.call.algorithm = Some(SubSeq(lit_cosine, 1, 5))
    /\ request.input = ValueString(<<"a">>)
    /\ Positional = Some(<<"b">>)
    /\ outcome.value = ValueInt(1)

\* whether a computed value has a zero fractional part
IsWhole(v) == v.num = 0 /\ v.of = <<>>

\* the value reported for the i-th metric call of the invocation
Reported(i) ==
    IF ops = <<"compute_all">> THEN outcome.value.vals[i].distance
    ELSE outcome.value

\* C6: every computed value v is reported as the integer equal to v when its
\* fractional part is zero and as the float v, unchanged, otherwise, for the
\* single result and for each row of the all-algorithms report alike.
C6_CoercionLaw ==
    Done =>
        \A i \in DOMAIN calls :
           LET v == calls[i].ret
           IN  IF IsWhole(v)
               THEN Reported(i).type = "int" /\ Reported(i).val = v.whole
               ELSE Reported(i).type = "float" /\ Reported(i).val = v

\* a report that mixes integer and fractional rows
C6_Witness ==
    /\ Done
    /\ ops = <<"compute_all">>
    /\ \E i, j \in DOMAIN calls :
          /\ outcome.value.vals[i].distance.type = "int"
          /\ outcome.value.vals[j].distance.type = "float"

RECURSIVE EditDistance(_, _)
\* the Levenshtein distance by its recursive definition
EditDistance(s, t) ==
    IF Len(s) = 0 THEN Len(t)
    ELSE IF Len(t) = 0 THEN Len(s)
    ELSE Min(Min(EditDistance(Tail(s), t) + 1, EditDistance(s, Tail(t)) + 1),
             EditDistance(Tail(s), Tail(t))
                + (IF Head(s) = Head(t) THEN 0 ELSE 1))

\* 'nutshell' | str similarity 'nushell' -a levenshtein
NutshellScenario ==
    /\ Done
    /\ request.input = ValueString(lit_nutshell)
    /\ request.call = EvaluatedCall(Some(lit_nushell), FALSE, FALSE, FALSE,
                                    Some(lit_levenshtein))

\* C7 as stated: levenshtein of "nutshell" and "nushell", not normalized, is
\* the integer 2, the edit distance of the two strings.
C7_NutshellIsTwo ==
    NutshellScenario =>
        /\ outcome.ok
        /\ outcome.value.type = "int"
        /\ outcome.value.val = 2
        /\ outcome.value.val = EditDistance(lit_nutshell, lit_nushell)

\* C7 amended: levenshtein of "nutshell" and "nushell", not normalized, is
\* the integer 1, the edit distance of the two strings.
C7_NutshellIsOne ==
    NutshellScenario =>
        /\ outcome.ok
        /\ outcome.value.type = "int"
        /\ outcome.value.val = 1
        /\ outcome.value.val = EditDistance(lit_nutshell, lit_nushell)

C7_Witness ==
    /\ NutshellScenario
    /\ ops = <<"compare_strings">>
    /\ calls[1].fn = "levenshtein"
    /\ calls[1].left = lit_nutshell

C9_NoStateCrossesInvocations ==
    /\ self = StrSimilarity
    /\ (Done /\ memo.set) =>
          /\ memo.request = request => memo.outcome = outcome
          /\ (/\ memo.request.call.list
              /\ memo.request.call.positional.some
              /\ request.call.list
              /\ Positional.some) => memo.outcome = outcome
          /\ (/\ memo.outcome.ok
              /\ memo.outcome.value.type = "list"
              /\ outcome.ok
              /\ outcome.value.type = "list") =>
                 \A i \in DOMAIN outcome.value.vals :
                    memo.outcome.value.vals[i].algorithm
                       = outcome.value.vals[i].algorithm

\* the same computing request, handled a second time after others
C9_Witness ==
    /\ Done
    /\ memo.set
    /\ memo.request = request
    /\ ~request.call.normalize
    /\ ops = <<"compare_strings">>
    /\ outcome.value.type = "float"

\* C10: with the comparison string present, the list flag gives the 25-row
\* catalogue and no metric call whatever the input and the other flags;
\* without list and with a string input, the all flag gives the 25-row
\* report, the same whatever the algorithm flag; with neither, the single
\* result of the selected algorithm is returned.
C10_FlagPrecedence ==
    (Done /\ Positional.some) =>
        /\ request.call.list =>
              /\ ops = <<"list_algorithms">>
              /\ calls = <<>>
              /\ outcome = Ok(list_algorithms)
              /\ Len(outcome.value.vals) = 25
        /\ (~request.call.list /\ StringInput /\ request.call.all) =>
              /\ ops = <<"compute_all">>
              /\ Len(calls) = 25
              /\ \A i \in 1..25 : calls[i].arm = i
              /\ outcome = compute_all(Positional.item, request.input.val,
                                       request.call.normalize).result
        /\ (~request.call.list /\ StringInput /\ ~request.call.all) =>
              /\ ops = <<"compare_strings">>
              /\ outcome.ok
              /\ outcome.value.type \in {"int", "float"}
              /\ Len(calls) = 1
              /\ calls[1].arm = match_arm(to_lowercase(Selected))

C10_Witness ==
    /\ Done
    /\ Positional.some
    /\ ~request.call.list
    /\ request.call.all
    /\ request.call.algorithm = Some(to_uppercase(lit_prefix))
    /\ StringInput
    /\ ops = <<"compute_all">>
    /\ Len(outcome.value.vals) = 25

====
